---- MODULE Spec2Model ----
(***************************************************************************)
(* The recti geometry kernel (cpp_ai/include/recti): Interval, Point,      *)
(* Rectangle, VSegment/HSegment and nearest_point_to, over T = int.        *)
(*                                                                         *)
(* Every method of the kernel is a pure function of its receiver and its   *)
(* argument.  Each is an operator here, computed as the code computes it,  *)
(* and each has one action that applies it to the operands chosen by Init  *)
(* and stores what it returns in res.  nearest_point_to is the one loop;   *)
(* it is modelled step by step.                                            *)
(*                                                                         *)
(* A value carries no type tag: ty holds the static types of the operands, *)
(* which is what C++ overload resolution sees.                             *)
(***************************************************************************)
EXTENDS Integers, Sequences, FiniteSets, TLC

VARIABLES
    ty,        \* static types of the operands, e.g. <<"Interval", "T">>
    a,         \* the receiver (first operand)
    b,         \* the argument (second operand), "none" for a unary call
    pc,        \* "start", the name of the operation applied, or a loop label
    res,       \* what the operation returned ("none" before any call)
    i,         \* nearest_point_to: loop index (0-based, as in the code)
    nearest,   \* nearest_point_to: index the pointer `nearest` points at
    min_dist   \* nearest_point_to: local min_dist

vars == <<ty, a, b, pc, res, i, nearest, min_dist>>

----------------------------------------------------------------------------
(* Bounds of the input domains. *)

\* Interval bounds are drawn from -MaxCoord..MaxCoord
MaxCoord == 5
\* Point coordinates and Rectangle/Segment interval bounds: -1..MaxRectCoord
MaxRectCoord == 1
\* nearest_point_to: candidate lists of length 0..MaxCand
MaxCand == 3
\* nearest_point_to: coordinates 0..MaxNearCoord
MaxNearCoord == 1

Coord == (0 - MaxCoord)..MaxCoord
RectCoord == (0 - 1)..MaxRectCoord
NearCoord == 0..MaxNearCoord

----------------------------------------------------------------------------
(* Scalar helpers: std::min, std::max, std::abs and int division. *)

Min(x, y) == IF y < x THEN y ELSE x
Max(x, y) == IF x < y THEN y ELSE x
Abs(x) == IF x < 0 THEN 0 - x ELSE x

\* C++ integer division truncates toward zero; TLA+ \div floors.
TruncDiv(x, y) ==
    IF (x < 0) = (y < 0) THEN Abs(x) \div Abs(y) ELSE 0 - (Abs(x) \div Abs(y))

----------------------------------------------------------------------------
(* Interval<T> *)

\* Interval(T lb, T ub)
Interval(lb, ub) == [lb |-> lb, ub |-> ub]

\* Interval(): the invalid interval [1, 0]
IntervalDefault == Interval(1, 0)

Interval_is_invalid(s) == s.lb > s.ub
Interval_is_valid(s) == s.lb <= s.ub
Interval_width(s) == s.ub - s.lb
Interval_is_empty(s) == s.lb = s.ub

\* mutant: the second comparison made strict
Interval_overlaps_Strict(s, other) == s.lb <= other.ub /\ other.lb < s.ub
Interval_overlaps(s, other) == s.lb <= other.ub /\ other.lb <= s.ub
Interval_overlaps_T(s, value) == s.lb <= value /\ value <= s.ub

\* mutant: other.lb compared twice, other.ub never
Interval_contains_LbTwice(s, other) == s.lb <= other.lb /\ other.lb <= s.ub
Interval_contains(s, other) == s.lb <= other.lb /\ other.ub <= s.ub
Interval_contains_T(s, value) == s.lb <= value /\ value <= s.ub

\* mutant: no overlap test before building the interval
Interval_intersect_with_Unchecked(s, other) ==
    Interval(Max(s.lb, other.lb), Min(s.ub, other.ub))
\* mutant: the receiver's lower bound kept
Interval_intersect_with_KeepsLb(s, other) ==
    IF Interval_overlaps(s, other)
    THEN Interval(s.lb, Min(s.ub, other.ub))
    ELSE IntervalDefault
\* mutant: disjoint operands give the receiver back
Interval_intersect_with_ElseReceiver(s, other) ==
    IF Interval_overlaps(s, other)
    THEN Interval(Max(s.lb, other.lb), Min(s.ub, other.ub))
    ELSE s
Interval_intersect_with(s, other) ==
    IF Interval_overlaps(s, other)
    THEN Interval(Max(s.lb, other.lb), Min(s.ub, other.ub))
    ELSE IntervalDefault

\* mutant: the side test dropped
Interval_min_dist_with_OneSide(s, other) ==
    IF Interval_overlaps(s, other) THEN 0
    ELSE s.lb - other.ub
Interval_min_dist_with(s, other) ==
    IF Interval_overlaps(s, other) THEN 0
    ELSE IF s.ub < other.lb THEN other.lb - s.ub
    ELSE s.lb - other.ub

\* mutant: the side test dropped
Interval_min_dist_with_T_OneSide(s, value) ==
    IF Interval_contains_T(s, value) THEN 0
    ELSE value - s.ub
Interval_min_dist_with_T(s, value) ==
    IF Interval_contains_T(s, value) THEN 0
    ELSE IF value < s.lb THEN s.lb - value
    ELSE value - s.ub

\* mutant: each bound halved before the sum
Interval_get_center_HalvesSummed(s) == TruncDiv(s.lb, 2) + TruncDiv(s.ub, 2)
\* mutant: the quotient rounded down
Interval_get_center_Floored(s) == (s.lb + s.ub) \div 2
Interval_get_center(s) == TruncDiv(s.lb + s.ub, 2)
Interval_measure(s) == Interval_width(s)
Interval_lower_corner(s) == s.lb
Interval_upper_corner(s) == s.ub

\* mutant: std::min for both bounds
Interval_hull_with_MinMin(s, other) ==
    Interval(Min(s.lb, other.lb), Min(s.ub, other.ub))
Interval_hull_with(s, other) == Interval(Min(s.lb, other.lb), Max(s.ub, other.ub))
Interval_hull_with_T(s, value) == Interval(Min(s.lb, value), Max(s.ub, value))

\* mutant: both bounds moved the same way
Interval_enlarge_Shifted(s, amount) == Interval(s.lb + amount, s.ub + amount)
Interval_enlarge(s, amount) == Interval(s.lb - amount, s.ub + amount)

\* operator+(T), operator-(T), operator*(T)
Interval_plus(s, value) == Interval(s.lb + value, s.ub + value)
Interval_minus(s, value) == Interval(s.lb - value, s.ub - value)
Interval_times(s, value) == Interval(s.lb * value, s.ub * value)

Interval_eq(s, other) == s.lb = other.lb /\ s.ub = other.ub

----------------------------------------------------------------------------
(* Point<T> *)

\* Point(T x, T y)
Point(x, y) == [x |-> x, y |-> y]

Point_overlaps(s, other) == s.x = other.x /\ s.y = other.y
Point_contains(s, other) == Point_overlaps(s, other)
\* mutant: the x difference taken without std::abs
Point_min_dist_with_SignedX(s, other) == (s.x - other.x) + Abs(s.y - other.y)
Point_min_dist_with(s, other) == Abs(s.x - other.x) + Abs(s.y - other.y)
Point_area(s) == 1
Point_get_center(s) == s
Point_measure(s) == Point_area(s)
Point_lower_corner(s) == s
Point_upper_corner(s) == s

\* returns std::pair<Interval, Interval>
Point_hull_with(s, other) ==
    <<Interval(Min(s.x, other.x), Max(s.x, other.x)),
      Interval(Min(s.y, other.y), Max(s.y, other.y))>>

Point_eq(s, other) == s.x = other.x /\ s.y = other.y

\* template <typename U> operator+(const Point<U>& vec)
Point_plus(s, vec) == Point(s.x + vec.x, s.y + vec.y)
\* template <typename U> operator-(const Point<U>& vec)
Point_minus(s, vec) == Point(s.x - vec.x, s.y - vec.y)
\* operator-(const Point& other)
Point_minus_Point(s, other) == Point(s.x - other.x, s.y - other.y)

----------------------------------------------------------------------------
(* Vector2<T> *)

\* Vector2(T x, T y)
Vector2(x, y) == [x |-> x, y |-> y]

Vector2_unit_x == Vector2(1, 0)
Vector2_unit_y == Vector2(0, 1)

\* mutant: the two products exchanged
Vector2_cross_Swapped(s, other) == s.y * other.x - s.x * other.y
Vector2_cross(s, other) == s.x * other.y - s.y * other.x
Vector2_dot(s, other) == s.x * other.x + s.y * other.y
Vector2_manhattan_length(s) == Abs(s.x) + Abs(s.y)
Vector2_length_squared(s) == s.x * s.x + s.y * s.y
\* std::sqrt of the squared length as a double, kept symbolic
Vector2_length(s) == [sqrt |-> Vector2_length_squared(s)]
Vector2_eq(s, other) == s.x = other.x /\ s.y = other.y
Vector2_plus(s, other) == Vector2(s.x + other.x, s.y + other.y)
Vector2_minus(s, other) == Vector2(s.x - other.x, s.y - other.y)
Vector2_times(s, scalar) == Vector2(s.x * scalar, s.y * scalar)
\* scalar # 0
Vector2_div(s, scalar) == Vector2(TruncDiv(s.x, scalar), TruncDiv(s.y, scalar))
Vector2_neg(s) == Vector2(0 - s.x, 0 - s.y)
\* operator*(T scalar, const Vector2& vec)
Vector2_scalar_times(scalar, vec) == Vector2_times(vec, scalar)

----------------------------------------------------------------------------
(* Rectangle<T> *)

\* Rectangle(const Interval& x_interval, const Interval& y_interval)
Rectangle(xi, yi) == [x_interval |-> xi, y_interval |-> yi]

\* Rectangle(): both intervals [1, 0]
RectangleDefault == Rectangle(Interval(1, 0), Interval(1, 0))

Rectangle_flip(s) == Rectangle(s.y_interval, s.x_interval)
Rectangle_ll(s) == Point(s.x_interval.lb, s.y_interval.lb)
Rectangle_ur(s) == Point(s.x_interval.ub, s.y_interval.ub)
Rectangle_width(s) == Interval_width(s.x_interval)
Rectangle_height(s) == Interval_width(s.y_interval)
\* mutant: an invalid rectangle is given area 0
Rectangle_area_Guarded(s) ==
    IF Interval_is_valid(s.x_interval) /\ Interval_is_valid(s.y_interval)
    THEN Rectangle_width(s) * Rectangle_height(s)
    ELSE 0
Rectangle_area(s) == Rectangle_width(s) * Rectangle_height(s)

Rectangle_overlaps(s, other) ==
    /\ Interval_overlaps(s.x_interval, other.x_interval)
    /\ Interval_overlaps(s.y_interval, other.y_interval)

Rectangle_contains(s, other) ==
    /\ Interval_contains(s.x_interval, other.x_interval)
    /\ Interval_contains(s.y_interval, other.y_interval)

Rectangle_contains_Point(s, point) ==
    /\ Interval_contains_T(s.x_interval, point.x)
    /\ Interval_contains_T(s.y_interval, point.y)

\* mutant: the larger of the two axis distances instead of their sum
Rectangle_min_dist_with_MaxAxis(s, other) ==
    Max(Interval_min_dist_with(s.x_interval, other.x_interval),
        Interval_min_dist_with(s.y_interval, other.y_interval))
Rectangle_min_dist_with(s, other) ==
    Interval_min_dist_with(s.x_interval, other.x_interval)
        + Interval_min_dist_with(s.y_interval, other.y_interval)

\* mutant: the y axis left out
Rectangle_min_dist_with_Point_XOnly(s, point) ==
    Interval_min_dist_with_T(s.x_interval, point.x)
Rectangle_min_dist_with_Point(s, point) ==
    Interval_min_dist_with_T(s.x_interval, point.x)
        + Interval_min_dist_with_T(s.y_interval, point.y)

Rectangle_get_center(s) ==
    Point(Interval_get_center(s.x_interval), Interval_get_center(s.y_interval))
Rectangle_measure(s) == Rectangle_area(s)
Rectangle_lower_corner(s) == Rectangle_ll(s)
Rectangle_upper_corner(s) == Rectangle_ur(s)

Rectangle_eq(s, other) ==
    /\ Interval_eq(s.x_interval, other.x_interval)
    /\ Interval_eq(s.y_interval, other.y_interval)

----------------------------------------------------------------------------
(* VSegment<T> and HSegment<T> *)

\* VSegment(T x, const Interval& y_interval)
VSegment(x, yi) == [x |-> x, y_interval |-> yi]
\* HSegment(const Interval& x_interval, T y)
HSegment(xi, y) == [x_interval |-> xi, y |-> y]

\* mutant: the interval's bounds taken in the wrong order
HSegment_flip_Reversed(s) == VSegment(s.y, Interval(s.x_interval.ub, s.x_interval.lb))
\* mutant: the fixed coordinate mirrored
VSegment_flip_Mirrored(s) == HSegment(s.y_interval, 0 - s.x)
VSegment_flip(s) == HSegment(s.y_interval, s.x)
HSegment_flip(s) == VSegment(s.y, s.x_interval)

\* mutant: the x-coordinates are not compared
VSegment_overlaps_AnyX(s, other) ==
    Interval_overlaps(s.y_interval, other.y_interval)
VSegment_overlaps(s, other) ==
    s.x = other.x /\ Interval_overlaps(s.y_interval, other.y_interval)
VSegment_contains(s, other) ==
    s.x = other.x /\ Interval_contains(s.y_interval, other.y_interval)
VSegment_contains_Point(s, point) ==
    s.x = point.x /\ Interval_contains_T(s.y_interval, point.y)
VSegment_eq(s, other) ==
    s.x = other.x /\ Interval_eq(s.y_interval, other.y_interval)

HSegment_overlaps(s, other) ==
    s.y = other.y /\ Interval_overlaps(s.x_interval, other.x_interval)
HSegment_contains(s, other) ==
    s.y = other.y /\ Interval_contains(s.x_interval, other.x_interval)
HSegment_contains_Point(s, point) ==
    s.y = point.y /\ Interval_contains_T(s.x_interval, point.x)
HSegment_eq(s, other) ==
    Interval_eq(s.x_interval, other.x_interval) /\ s.y = other.y

----------------------------------------------------------------------------
(* The public methods each shape class declares (operators and accessors   *)
(* left out).  A call a.m(...) compiles only if m is one of them.          *)

Methods(type) ==
    CASE type = "Interval" ->
            {"is_invalid", "is_valid", "width", "is_empty", "overlaps", "contains",
             "intersect_with", "min_dist_with", "get_center", "measure",
             "lower_corner", "upper_corner", "hull_with", "enlarge"}
      [] type = "Point" ->
            {"width", "height", "area", "overlaps", "contains", "min_dist_with",
             "get_center", "measure", "lower_corner", "upper_corner", "hull_with",
             "enlarge"}
      [] type = "Rectangle" ->
            {"ll", "ur", "width", "height", "area", "flip", "overlaps", "contains",
             "min_dist_with", "get_center", "measure", "lower_corner",
             "upper_corner"}
      [] type = "VSegment" -> {"flip", "overlaps", "contains"}
      [] type = "HSegment" -> {"flip", "overlaps", "contains"}

----------------------------------------------------------------------------
(* Input domains.  No constructor enforces lb <= ub, so invalid intervals  *)
(* are values the program can hold.                                        *)

Intervals == {Interval(l, u) : l \in Coord, u \in Coord}
RectIntervals == {Interval(l, u) : l \in RectCoord, u \in RectCoord}
Points == {Point(x, y) : x \in RectCoord, y \in RectCoord}
Rectangles == {Rectangle(xi, yi) : xi \in RectIntervals, yi \in RectIntervals}
VSegments == {VSegment(x, yi) : x \in RectCoord, yi \in RectIntervals}
HSegments == {HSegment(xi, y) : xi \in RectIntervals, y \in RectCoord}
Vectors == {Vector2(x, y) : x \in RectCoord, y \in RectCoord}
NearPoints == {Point(x, y) : x \in NearCoord, y \in NearCoord}
Candidates == UNION {[1..n -> NearPoints] : n \in 0..MaxCand}

----------------------------------------------------------------------------
(* Calls.  Each action is a single call on the operands of this state. *)

\* The operands have the static types `types` and nothing was called yet.
Ready(types) == pc = "start" /\ ty = types

\* The call `name` returns `value`; the operands are const and stay as they are.
Return(name, value) ==
    /\ pc' = name
    /\ res' = value
    /\ UNCHANGED <<ty, a, b, i, nearest, min_dist>>

II == <<"Interval", "Interval">>
IT == <<"Interval", "T">>
I1 == <<"Interval">>
\* a receiver and two arguments; b is the pair of arguments
III == <<"Interval", "Interval", "Interval">>

CallIntervalOverlaps ==
    /\ Ready(II)
    /\ Return("Interval::overlaps", Interval_overlaps(a, b))
CallIntervalOverlapsT ==
    /\ Ready(IT)
    /\ Return("Interval::overlaps(T)", Interval_overlaps_T(a, b))
CallIntervalContains ==
    /\ Ready(II)
    /\ Return("Interval::contains", Interval_contains(a, b))
CallIntervalContainsT ==
    /\ Ready(IT)
    /\ Return("Interval::contains(T)", Interval_contains_T(a, b))
CallIntervalIntersectWith ==
    /\ Ready(II)
    /\ Return("Interval::intersect_with", Interval_intersect_with(a, b))
\* a.intersect_with(b).intersect_with(c)
CallIntervalIntersectWithLeft ==
    /\ Ready(III)
    /\ Return("a.intersect_with(b).intersect_with(c)",
              Interval_intersect_with(Interval_intersect_with(a, b[1]), b[2]))
\* a.intersect_with(b.intersect_with(c))
CallIntervalIntersectWithRight ==
    /\ Ready(III)
    /\ Return("a.intersect_with(b.intersect_with(c))",
              Interval_intersect_with(a, Interval_intersect_with(b[1], b[2])))
CallIntervalMinDistWith ==
    /\ Ready(II)
    /\ Return("Interval::min_dist_with", Interval_min_dist_with(a, b))
CallIntervalMinDistWithT ==
    /\ Ready(IT)
    /\ Return("Interval::min_dist_with(T)", Interval_min_dist_with_T(a, b))
CallIntervalHullWith ==
    /\ Ready(II)
    /\ Return("Interval::hull_with", Interval_hull_with(a, b))
CallIntervalHullWithT ==
    /\ Ready(IT)
    /\ Return("Interval::hull_with(T)", Interval_hull_with_T(a, b))
CallIntervalEnlarge ==
    /\ Ready(IT)
    /\ Return("Interval::enlarge", Interval_enlarge(a, b))
CallIntervalPlus ==
    /\ Ready(IT)
    /\ Return("Interval::operator+", Interval_plus(a, b))
CallIntervalMinus ==
    /\ Ready(IT)
    /\ Return("Interval::operator-", Interval_minus(a, b))
CallIntervalTimes ==
    /\ Ready(IT)
    /\ Return("Interval::operator*", Interval_times(a, b))
CallIntervalEq ==
    /\ Ready(II)
    /\ Return("Interval::operator==", Interval_eq(a, b))
CallIntervalGetCenter ==
    /\ Ready(I1)
    /\ Return("Interval::get_center", Interval_get_center(a))
CallIntervalMeasure ==
    /\ Ready(I1)
    /\ Return("Interval::measure", Interval_measure(a))
CallIntervalLowerCorner ==
    /\ Ready(I1)
    /\ Return("Interval::lower_corner", Interval_lower_corner(a))
CallIntervalUpperCorner ==
    /\ Ready(I1)
    /\ Return("Interval::upper_corner", Interval_upper_corner(a))

----------------------------------------------------------------------------
(* Point calls *)

PP == <<"Point", "Point">>
\* the argument is a Point over another arithmetic type U
PPU == <<"Point", "Point<U>">>
\* the argument is a Vector2
PV2 == <<"Point", "Vector2">>
P1 == <<"Point">>

CallPointOverlaps ==
    /\ Ready(PP)
    /\ Return("Point::overlaps", Point_overlaps(a, b))
CallPointContains ==
    /\ Ready(PP)
    /\ Return("Point::contains", Point_contains(a, b))
CallPointMinDistWith ==
    /\ Ready(PP)
    /\ Return("Point::min_dist_with", Point_min_dist_with(a, b))
CallPointEq ==
    /\ Ready(PP)
    /\ Return("Point::operator==", Point_eq(a, b))
CallPointHullWith ==
    /\ Ready(PP)
    /\ Return("Point::hull_with", Point_hull_with(a, b))
\* p + q: U is deduced from a Point<U> argument only
CallPointPlus ==
    /\ pc = "start"
    /\ ty \in {PP, PPU}
    /\ Return("Point::operator+", Point_plus(a, b))
\* p - q with q a Point<U>, U another type than T: the template is the only match
CallPointMinusU ==
    /\ Ready(PPU)
    /\ Return("Point::operator-(Point<U>)", Point_minus(a, b))
\* p - q with q a Point<T>: the non-template overload is preferred
CallPointMinusPoint ==
    /\ Ready(PP)
    /\ Return("Point::operator-(Point)", Point_minus_Point(a, b))
CallPointGetCenter ==
    /\ Ready(P1)
    /\ Return("Point::get_center", Point_get_center(a))
CallPointMeasure ==
    /\ Ready(P1)
    /\ Return("Point::measure", Point_measure(a))
CallPointLowerCorner ==
    /\ Ready(P1)
    /\ Return("Point::lower_corner", Point_lower_corner(a))
CallPointUpperCorner ==
    /\ Ready(P1)
    /\ Return("Point::upper_corner", Point_upper_corner(a))

----------------------------------------------------------------------------
(* Rectangle calls *)

RR == <<"Rectangle", "Rectangle">>
RP == <<"Rectangle", "Point">>
R1 == <<"Rectangle">>

CallRectangleOverlaps ==
    /\ Ready(RR)
    /\ Return("Rectangle::overlaps", Rectangle_overlaps(a, b))
CallRectangleContains ==
    /\ Ready(RR)
    /\ Return("Rectangle::contains", Rectangle_contains(a, b))
CallRectangleContainsPoint ==
    /\ Ready(RP)
    /\ Return("Rectangle::contains(Point)", Rectangle_contains_Point(a, b))
CallRectangleMinDistWith ==
    /\ Ready(RR)
    /\ Return("Rectangle::min_dist_with", Rectangle_min_dist_with(a, b))
CallRectangleMinDistWithPoint ==
    /\ Ready(RP)
    /\ Return("Rectangle::min_dist_with(Point)", Rectangle_min_dist_with_Point(a, b))
\* mutant: flip exchanges the receiver's own intervals
CallRectangleFlip_InPlace ==
    /\ Ready(R1)
    /\ a' = Rectangle_flip(a)
    /\ res' = a'
    /\ pc' = "Rectangle::flip"
    /\ UNCHANGED <<ty, b, i, nearest, min_dist>>
CallRectangleFlip ==
    /\ Ready(R1)
    /\ Return("Rectangle::flip", Rectangle_flip(a))
CallRectangleArea ==
    /\ Ready(R1)
    /\ Return("Rectangle::area", Rectangle_area(a))
CallRectangleGetCenter ==
    /\ Ready(R1)
    /\ Return("Rectangle::get_center", Rectangle_get_center(a))
CallRectangleMeasure ==
    /\ Ready(R1)
    /\ Return("Rectangle::measure", Rectangle_measure(a))
CallRectangleLowerCorner ==
    /\ Ready(R1)
    /\ Return("Rectangle::lower_corner", Rectangle_lower_corner(a))
CallRectangleUpperCorner ==
    /\ Ready(R1)
    /\ Return("Rectangle::upper_corner", Rectangle_upper_corner(a))

----------------------------------------------------------------------------
(* Segment calls.  flip() can be called again on the segment it returned. *)

VV == <<"VSegment", "VSegment">>
HH == <<"HSegment", "HSegment">>
VP == <<"VSegment", "Point">>
HP == <<"HSegment", "Point">>
V1 == <<"VSegment">>
H1 == <<"HSegment">>

CallVSegmentOverlaps ==
    /\ Ready(VV)
    /\ Return("VSegment::overlaps", VSegment_overlaps(a, b))
CallHSegmentOverlaps ==
    /\ Ready(HH)
    /\ Return("HSegment::overlaps", HSegment_overlaps(a, b))
CallVSegmentContains ==
    /\ Ready(VV)
    /\ Return("VSegment::contains", VSegment_contains(a, b))
CallHSegmentContains ==
    /\ Ready(HH)
    /\ Return("HSegment::contains", HSegment_contains(a, b))
CallVSegmentContainsPoint ==
    /\ Ready(VP)
    /\ Return("VSegment::contains(Point)", VSegment_contains_Point(a, b))
CallHSegmentContainsPoint ==
    /\ Ready(HP)
    /\ Return("HSegment::contains(Point)", HSegment_contains_Point(a, b))
CallVSegmentFlip ==
    /\ Ready(V1)
    /\ Return("VSegment::flip", VSegment_flip(a))
CallHSegmentFlip ==
    /\ Ready(H1)
    /\ Return("HSegment::flip", HSegment_flip(a))
\* a.flip().flip() for a VSegment a: the second flip is HSegment::flip
CallVSegmentFlipFlip ==
    /\ pc = "VSegment::flip"
    /\ Return("VSegment::flip.flip", HSegment_flip(res))
\* a.flip().flip() for an HSegment a: the second flip is VSegment::flip
CallHSegmentFlipFlip ==
    /\ pc = "HSegment::flip"
    /\ Return("HSegment::flip.flip", VSegment_flip(res))

----------------------------------------------------------------------------
(* Vector2 calls.  The const operators return a new vector; the in-place   *)
(* operators assign to the receiver's fields and return *this.             *)

V2V2 == <<"Vector2", "Vector2">>
V2T == <<"Vector2", "T">>
V2 == <<"Vector2">>

CallVector2Cross ==
    /\ Ready(V2V2)
    /\ Return("Vector2::cross", Vector2_cross(a, b))
CallVector2Dot ==
    /\ Ready(V2V2)
    /\ Return("Vector2::dot", Vector2_dot(a, b))
CallVector2Eq ==
    /\ Ready(V2V2)
    /\ Return("Vector2::operator==", Vector2_eq(a, b))
CallVector2Plus ==
    /\ Ready(V2V2)
    /\ Return("Vector2::operator+", Vector2_plus(a, b))
CallVector2Minus ==
    /\ Ready(V2V2)
    /\ Return("Vector2::operator-", Vector2_minus(a, b))
CallVector2Times ==
    /\ Ready(V2T)
    /\ Return("Vector2::operator*", Vector2_times(a, b))
CallVector2ScalarTimes ==
    /\ Ready(V2T)
    /\ Return("operator*(T, Vector2)", Vector2_scalar_times(b, a))
CallVector2Div ==
    /\ Ready(V2T)
    /\ b # 0
    /\ Return("Vector2::operator/", Vector2_div(a, b))
CallVector2Neg ==
    /\ Ready(V2)
    /\ Return("Vector2::operator-()", Vector2_neg(a))
CallVector2ManhattanLength ==
    /\ Ready(V2)
    /\ Return("Vector2::manhattan_length", Vector2_manhattan_length(a))
CallVector2LengthSquared ==
    /\ Ready(V2)
    /\ Return("Vector2::length_squared", Vector2_length_squared(a))
CallVector2Length ==
    /\ Ready(V2)
    /\ Return("Vector2::length", Vector2_length(a))

\* what an in-place operator returns: a reference to its receiver
ThisRef == "*this"

\* x_ += other.x_; y_ += other.y_; return *this;
CallVector2PlusAssign ==
    /\ Ready(V2V2)
    /\ a' = [a EXCEPT !.x = a.x + b.x, !.y = a.y + b.y]
    /\ res' = ThisRef
    /\ pc' = "Vector2::operator+="
    /\ UNCHANGED <<ty, b, i, nearest, min_dist>>

\* mutant: the body of += left in -=
CallVector2MinusAssign_Adds ==
    /\ Ready(V2V2)
    /\ a' = [a EXCEPT !.x = a.x + b.x, !.y = a.y + b.y]
    /\ res' = ThisRef
    /\ pc' = "Vector2::operator-="
    /\ UNCHANGED <<ty, b, i, nearest, min_dist>>

\* x_ -= other.x_; y_ -= other.y_; return *this;
CallVector2MinusAssign ==
    /\ Ready(V2V2)
    /\ a' = [a EXCEPT !.x = a.x - b.x, !.y = a.y - b.y]
    /\ res' = ThisRef
    /\ pc' = "Vector2::operator-="
    /\ UNCHANGED <<ty, b, i, nearest, min_dist>>

\* x_ *= scalar; y_ *= scalar; return *this;
CallVector2TimesAssign ==
    /\ Ready(V2T)
    /\ a' = [a EXCEPT !.x = a.x * b, !.y = a.y * b]
    /\ res' = ThisRef
    /\ pc' = "Vector2::operator*="
    /\ UNCHANGED <<ty, b, i, nearest, min_dist>>

\* x_ /= scalar; y_ /= scalar; return *this;
CallVector2DivAssign ==
    /\ Ready(V2T)
    /\ b # 0
    /\ a' = [a EXCEPT !.x = TruncDiv(a.x, b), !.y = TruncDiv(a.y, b)]
    /\ res' = ThisRef
    /\ pc' = "Vector2::operator/="
    /\ UNCHANGED <<ty, b, i, nearest, min_dist>>

\* v / 0 and v /= 0: integer division by zero is undefined.  The division
\* traps before anything is stored, or the hardware yields quotient 0.
Vector2DivByZero ==
    /\ Ready(V2T)
    /\ b = 0
    /\ \/ /\ pc' = "SIGFPE"
          /\ UNCHANGED <<a, res>>
       \/ /\ pc' = "Vector2::operator/ by 0"
          /\ res' = Vector2(0, 0)
          /\ UNCHANGED a
       \/ /\ pc' = "Vector2::operator/= by 0"
          /\ a' = Vector2(0, 0)
          /\ res' = ThisRef
    /\ UNCHANGED <<ty, b, i, nearest, min_dist>>

\* the calls that assigned to their receiver
InPlace ==
    {"Vector2::operator+=", "Vector2::operator-=", "Vector2::operator*=",
     "Vector2::operator/=", "Vector2::operator/= by 0"}

\* The value a const call returned is dropped and the locals of
\* nearest_point_to are gone: the next call is made on the same operands.
Discard ==
    /\ pc \notin {"start", "for", "SIGFPE"} \cup InPlace
    /\ pc' = "start"
    /\ res' = "none"
    /\ i' = 0
    /\ nearest' = "none"
    /\ min_dist' = 0
    /\ UNCHANGED <<ty, a, b>>

----------------------------------------------------------------------------
(* nearest_point_to(point, candidates): a is point, b is candidates.  A    *)
(* pointer into candidates is the 0-based index of the element it points   *)
(* at; nullptr is "nullptr".                                               *)

PVec == <<"Point", "vector<Point>">>

\* mutant: <= for <
IsNearer_OrEqual(dist, best) == dist <= best
\* if (dist < min_dist)
IsNearer(dist, best) == dist < best

\* if (candidates.empty()) return nullptr;
NearestEmpty ==
    /\ Ready(PVec)
    /\ Len(b) = 0
    /\ Return("nearest_point_to", "nullptr")

\* nearest = &candidates[0]; min_dist = point.min_dist_with(*nearest); i = 1
NearestFirst ==
    /\ Ready(PVec)
    /\ Len(b) # 0
    /\ nearest' = 0
    /\ min_dist' = Point_min_dist_with(a, b[1])
    /\ i' = 1
    /\ pc' = "for"
    /\ UNCHANGED <<ty, a, b, res>>

\* mutant: the scan stops at the first candidate at distance 0
NearestStep_EarlyExit ==
    /\ pc = "for"
    /\ i < Len(b)
    /\ LET dist == Point_min_dist_with(a, b[i + 1])
       IN  /\ IF IsNearer(dist, min_dist)
              THEN min_dist' = dist /\ nearest' = i
              ELSE UNCHANGED <<min_dist, nearest>>
           /\ i' = IF min_dist' = 0 THEN Len(b) ELSE i + 1
    /\ UNCHANGED <<ty, a, b, pc, res>>

\* one iteration of the for loop (candidates[i] is b[i + 1])
NearestStep ==
    /\ pc = "for"
    /\ i < Len(b)
    /\ LET dist == Point_min_dist_with(a, b[i + 1])
       IN  IF IsNearer(dist, min_dist)
           THEN min_dist' = dist /\ nearest' = i
           ELSE UNCHANGED <<min_dist, nearest>>
    /\ i' = i + 1
    /\ UNCHANGED <<ty, a, b, pc, res>>

\* the loop condition fails: return nearest;
NearestReturn ==
    /\ pc = "for"
    /\ ~(i < Len(b))
    /\ pc' = "nearest_point_to"
    /\ res' = nearest
    /\ UNCHANGED <<ty, a, b, i, nearest, min_dist>>

----------------------------------------------------------------------------
(* The generic free functions of generic.hpp.  Each is a template that     *)
(* forwards to the method of its first argument; the overload is chosen by *)
(* the static types of the arguments.                                      *)

recti_overlap(types, x, y) ==
    CASE types = II -> Interval_overlaps(x, y)
      [] types = IT -> Interval_overlaps_T(x, y)
      [] types = PP -> Point_overlaps(x, y)
      [] types = RR -> Rectangle_overlaps(x, y)
      [] types = VV -> VSegment_overlaps(x, y)
      [] types = HH -> HSegment_overlaps(x, y)

\* mutant: contain forwards to overlaps
recti_contain_AsOverlap(types, x, y) ==
    CASE types = II -> Interval_overlaps(x, y)
      [] types = IT -> Interval_overlaps_T(x, y)
      [] types = PP -> Point_overlaps(x, y)
      [] types = RR -> Rectangle_overlaps(x, y)
      [] types = RP -> Rectangle_contains_Point(x, y)
      [] types = VV -> VSegment_overlaps(x, y)
      [] types = HH -> HSegment_overlaps(x, y)
      [] types = VP -> VSegment_contains_Point(x, y)
      [] types = HP -> HSegment_contains_Point(x, y)

recti_contain(types, x, y) ==
    CASE types = II -> Interval_contains(x, y)
      [] types = IT -> Interval_contains_T(x, y)
      [] types = PP -> Point_contains(x, y)
      [] types = RR -> Rectangle_contains(x, y)
      [] types = RP -> Rectangle_contains_Point(x, y)
      [] types = VV -> VSegment_contains(x, y)
      [] types = HH -> HSegment_contains(x, y)
      [] types = VP -> VSegment_contains_Point(x, y)
      [] types = HP -> HSegment_contains_Point(x, y)

recti_min_dist(types, x, y) ==
    CASE types = II -> Interval_min_dist_with(x, y)
      [] types = IT -> Interval_min_dist_with_T(x, y)
      [] types = PP -> Point_min_dist_with(x, y)
      [] types = RR -> Rectangle_min_dist_with(x, y)
      [] types = RP -> Rectangle_min_dist_with_Point(x, y)

recti_center(types, x) ==
    CASE types = I1 -> Interval_get_center(x)
      [] types = P1 -> Point_get_center(x)
      [] types = R1 -> Rectangle_get_center(x)

recti_measure_of(types, x) ==
    CASE types = I1 -> Interval_measure(x)
      [] types = P1 -> Point_measure(x)
      [] types = R1 -> Rectangle_measure(x)

recti_lower(types, x) ==
    CASE types = I1 -> Interval_lower_corner(x)
      [] types = P1 -> Point_lower_corner(x)
      [] types = R1 -> Rectangle_lower_corner(x)

recti_upper(types, x) ==
    CASE types = I1 -> Interval_upper_corner(x)
      [] types = P1 -> Point_upper_corner(x)
      [] types = R1 -> Rectangle_upper_corner(x)

CallOverlap ==
    /\ pc = "start"
    /\ ty \in {II, IT, PP, RR, VV, HH}
    /\ Return("overlap", recti_overlap(ty, a, b))
CallContain ==
    /\ pc = "start"
    /\ ty \in {II, IT, PP, RR, RP, VV, HH, VP, HP}
    /\ Return("contain", recti_contain(ty, a, b))
CallMinDist ==
    /\ pc = "start"
    /\ ty \in {II, IT, PP, RR, RP}
    /\ Return("min_dist", recti_min_dist(ty, a, b))
CallCenter ==
    /\ pc = "start"
    /\ ty \in {I1, P1, R1}
    /\ Return("center", recti_center(ty, a))
CallMeasureOf ==
    /\ pc = "start"
    /\ ty \in {I1, P1, R1}
    /\ Return("measure_of", recti_measure_of(ty, a))
CallLower ==
    /\ pc = "start"
    /\ ty \in {I1, P1, R1}
    /\ Return("lower", recti_lower(ty, a))
CallUpper ==
    /\ pc = "start"
    /\ ty \in {I1, P1, R1}
    /\ Return("upper", recti_upper(ty, a))

----------------------------------------------------------------------------
(* Specification *)

InitCommon ==
    /\ pc = "start"
    /\ res = "none"
    /\ i = 0
    /\ nearest = "none"
    /\ min_dist = 0

InitInterval ==
    \/ ty = II /\ a \in Intervals /\ b \in Intervals
    \/ ty = IT /\ a \in Intervals /\ b \in Coord
    \/ ty = I1 /\ a \in Intervals /\ b = "none"
    \/ ty = III /\ a \in RectIntervals /\ b \in RectIntervals \X RectIntervals

InitPoint ==
    \/ ty = PP /\ a \in Points /\ b \in Points
    \/ ty = PPU /\ a \in Points /\ b \in Points
    \/ ty = PV2 /\ a \in Points /\ b \in Vectors
    \/ ty = P1 /\ a \in Points /\ b = "none"

InitRectangle ==
    \/ ty = RR /\ a \in Rectangles /\ b \in Rectangles
    \/ ty = RP /\ a \in Rectangles /\ b \in Points
    \/ ty = R1 /\ a \in Rectangles /\ b = "none"

InitSegment ==
    \/ ty = VV /\ a \in VSegments /\ b \in VSegments
    \/ ty = HH /\ a \in HSegments /\ b \in HSegments
    \/ ty = VP /\ a \in VSegments /\ b \in Points
    \/ ty = HP /\ a \in HSegments /\ b \in Points
    \/ ty = V1 /\ a \in VSegments /\ b = "none"
    \/ ty = H1 /\ a \in HSegments /\ b = "none"

InitVector2 ==
    \/ ty = V2V2 /\ a \in Vectors /\ b \in Vectors
    \/ ty = V2T /\ a \in Vectors /\ b \in Coord
    \/ ty = V2 /\ a \in Vectors /\ b = "none"

InitNearest == ty = PVec /\ a \in NearPoints /\ b \in Candidates

Init ==
    /\ InitCommon
    /\ \/ InitInterval
       \/ InitPoint
       \/ InitRectangle
       \/ InitSegment
       \/ InitVector2
       \/ InitNearest

NextInterval ==
    \/ CallIntervalOverlaps
    \/ CallIntervalOverlapsT
    \/ CallIntervalContains
    \/ CallIntervalContainsT
    \/ CallIntervalIntersectWith
    \/ CallIntervalIntersectWithLeft
    \/ CallIntervalIntersectWithRight
    \/ CallIntervalMinDistWith
    \/ CallIntervalMinDistWithT
    \/ CallIntervalHullWith
    \/ CallIntervalHullWithT
    \/ CallIntervalEnlarge
    \/ CallIntervalPlus
    \/ CallIntervalMinus
    \/ CallIntervalTimes
    \/ CallIntervalEq
    \/ CallIntervalGetCenter
    \/ CallIntervalMeasure
    \/ CallIntervalLowerCorner
    \/ CallIntervalUpperCorner

NextPoint ==
    \/ CallPointOverlaps
    \/ CallPointContains
    \/ CallPointMinDistWith
    \/ CallPointEq
    \/ CallPointHullWith
    \/ CallPointPlus
    \/ CallPointMinusU
    \/ CallPointMinusPoint
    \/ CallPointGetCenter
    \/ CallPointMeasure
    \/ CallPointLowerCorner
    \/ CallPointUpperCorner

NextRectangle ==
    \/ CallRectangleOverlaps
    \/ CallRectangleContains
    \/ CallRectangleContainsPoint
    \/ CallRectangleMinDistWith
    \/ CallRectangleMinDistWithPoint
    \/ CallRectangleFlip
    \/ CallRectangleArea
    \/ CallRectangleGetCenter
    \/ CallRectangleMeasure
    \/ CallRectangleLowerCorner
    \/ CallRectangleUpperCorner

NextSegment ==
    \/ CallVSegmentOverlaps
    \/ CallHSegmentOverlaps
    \/ CallVSegmentContains
    \/ CallHSegmentContains
    \/ CallVSegmentContainsPoint
    \/ CallHSegmentContainsPoint
    \/ CallVSegmentFlip
    \/ CallHSegmentFlip
    \/ CallVSegmentFlipFlip
    \/ CallHSegmentFlipFlip

NextVector2 ==
    \/ CallVector2Cross
    \/ CallVector2Dot
    \/ CallVector2Eq
    \/ CallVector2Plus
    \/ CallVector2Minus
    \/ CallVector2Times
    \/ CallVector2ScalarTimes
    \/ CallVector2Div
    \/ CallVector2Neg
    \/ CallVector2ManhattanLength
    \/ CallVector2LengthSquared
    \/ CallVector2Length
    \/ CallVector2PlusAssign
    \/ CallVector2MinusAssign
    \/ CallVector2TimesAssign
    \/ CallVector2DivAssign
    \/ Vector2DivByZero

NextNearest ==
    \/ NearestEmpty
    \/ NearestFirst
    \/ NearestStep
    \/ NearestReturn

NextGeneric ==
    \/ CallOverlap
    \/ CallContain
    \/ CallMinDist
    \/ CallCenter
    \/ CallMeasureOf
    \/ CallLower
    \/ CallUpper

Next ==
    \/ NextInterval
    \/ NextPoint
    \/ NextRectangle
    \/ NextSegment
    \/ NextVector2
    \/ NextNearest
    \/ NextGeneric
    \/ Discard

Spec == Init /\ [][Next]_vars

----------------------------------------------------------------------------
(* Properties.  The reference notions below are stated on their own, not   *)
(* through the operators that model the code.                              *)

\* least element of a non-empty set of integers
SetMin(S) == CHOOSE m \in S : \A n \in S : m <= n
\* |x - y|
Gap(x, y) == IF x < y THEN y - x ELSE x - y
\* the integers of a valid interval
Members(s) == s.lb..s.ub
\* the points of a valid rectangle
RectMembers(r) == {Point(x, y) : x \in Members(r.x_interval), y \in Members(r.y_interval)}
\* Manhattan distance of two points
Manhattan(p, q) == Gap(p.x, q.x) + Gap(p.y, q.y)
ValidRect(r) == r.x_interval.lb <= r.x_interval.ub /\ r.y_interval.lb <= r.y_interval.ub

\* C1: for all Intervals and all Rectangles a, b, a.min_dist_with(b) is never
\* negative, and it is 0 if and only if a.overlaps(b).
C1_MinDistZeroIffOverlap ==
    /\ pc = "Interval::min_dist_with" =>
          res >= 0 /\ (res = 0 <=> Interval_overlaps(a, b))
    /\ pc = "Rectangle::min_dist_with" =>
          res >= 0 /\ (res = 0 <=> Rectangle_overlaps(a, b))

\* two valid rectangles that touch in one corner only: distance 0, overlapping
C1_Witness ==
    /\ pc = "Rectangle::min_dist_with"
    /\ ValidRect(a) /\ ValidRect(b)
    /\ a.x_interval.ub = b.x_interval.lb /\ a.x_interval.lb < b.x_interval.lb
    /\ a.y_interval.ub = b.y_interval.lb /\ a.y_interval.lb < b.y_interval.lb
    /\ res = 0

\* C2: overlap is symmetric: a.overlaps(b) == b.overlaps(a) for two Intervals,
\* two Rectangles, two VSegments and two HSegments.
C2_OverlapSymmetric ==
    /\ pc = "Interval::overlaps" => res = Interval_overlaps(b, a)
    /\ pc = "Rectangle::overlaps" => res = Rectangle_overlaps(b, a)
    /\ pc = "VSegment::overlaps" => res = VSegment_overlaps(b, a)
    /\ pc = "HSegment::overlaps" => res = HSegment_overlaps(b, a)

\* two different intervals that share exactly one endpoint overlap
C2_Witness ==
    /\ pc = "Interval::overlaps"
    /\ a.lb < a.ub /\ a.ub = b.lb /\ b.lb < b.ub
    /\ res = TRUE

\* C3: h = a.hull_with(b) contains a and b, and every Interval c that contains
\* a and b contains h; the Rectangle made of the pair p.hull_with(q) contains
\* the Points p and q.
C3_HullSmallestContainer ==
    /\ pc = "Interval::hull_with" =>
          /\ Interval_contains(res, a)
          /\ Interval_contains(res, b)
          /\ \A c \in Intervals :
                Interval_contains(c, a) /\ Interval_contains(c, b)
                    => Interval_contains(c, res)
    /\ pc = "Point::hull_with" =>
          /\ Rectangle_contains_Point(Rectangle(res[1], res[2]), a)
          /\ Rectangle_contains_Point(Rectangle(res[1], res[2]), b)

\* disjoint valid operands, the second below the first: the hull spans the gap
C3_Witness ==
    /\ pc = "Interval::hull_with"
    /\ b.lb <= b.ub /\ b.ub < a.lb /\ a.lb <= a.ub
    /\ res = [lb |-> b.lb, ub |-> a.ub]

\* C4: Interval containment is antisymmetric: if a.contains(b) and
\* b.contains(a) then a == b, with equal lb and equal ub.
C4_ContainAntisymmetric ==
    /\ pc = "Interval::contains" /\ res /\ Interval_contains(b, a) =>
          a.lb = b.lb /\ a.ub = b.ub
    /\ pc = "Interval::operator==" /\ Interval_contains(a, b) /\ Interval_contains(b, a) =>
          res = TRUE

\* an interval that contains, and is contained in, its argument
C4_Witness ==
    /\ pc = "Interval::contains"
    /\ res = TRUE
    /\ Interval_contains(b, a)
    /\ a.lb < a.ub

\* C5: VSegment(x, yi).flip() == HSegment(yi, x), HSegment(xi, y).flip() ==
\* VSegment(y, xi), and s.flip().flip() == s for every VSegment and HSegment s.
C5_FlipInverse ==
    /\ pc = "VSegment::flip" => res = [x_interval |-> a.y_interval, y |-> a.x]
    /\ pc = "HSegment::flip" => res = [x |-> a.y, y_interval |-> a.x_interval]
    /\ pc = "VSegment::flip.flip" => VSegment_eq(res, a) /\ res = a
    /\ pc = "HSegment::flip.flip" => HSegment_eq(res, a) /\ res = a

\* an HSegment flipped twice, with three different numbers in it
C5_Witness ==
    /\ pc = "HSegment::flip.flip"
    /\ a.x_interval.lb < a.x_interval.ub
    /\ a.y # a.x_interval.lb /\ a.y # a.x_interval.ub
    /\ res = a

\* C6: a.intersect_with(b) is [max(a.lb, b.lb), min(a.ub, b.ub)] when
\* a.overlaps(b) and otherwise exactly the invalid interval lb = 1, ub = 0, for
\* which is_invalid() is true; the call never fails.
C6_IntersectOrInvalid ==
    /\ pc = "Interval::intersect_with" =>
          IF Interval_overlaps(a, b)
          THEN /\ res.lb \in {a.lb, b.lb} /\ res.lb >= a.lb /\ res.lb >= b.lb
               /\ res.ub \in {a.ub, b.ub} /\ res.ub <= a.ub /\ res.ub <= b.ub
          ELSE /\ res = [lb |-> 1, ub |-> 0]
               /\ Interval_is_invalid(res)
    /\ pc = "start" /\ ty = II => ENABLED CallIntervalIntersectWith

\* disjoint valid operands away from [1, 0]: the result is still lb = 1, ub = 0
C6_Witness ==
    /\ pc = "Interval::intersect_with"
    /\ a.lb <= a.ub /\ a.ub < b.lb /\ b.lb <= b.ub
    /\ a.ub < 0
    /\ res = [lb |-> 1, ub |-> 0]

\* distance from point a to candidates[j], 0-based
CandDist(j) == Manhattan(a, b[j + 1])

\* C7: nearest_point_to returns nullptr when candidates is empty; otherwise it
\* returns the candidate at the smallest index whose min_dist_with to point is
\* the minimum over all candidates.
C7_NearestFirstMinimum ==
    pc = "nearest_point_to" =>
        IF Len(b) = 0
        THEN res = "nullptr"
        ELSE /\ res \in 0..(Len(b) - 1)
             /\ \A j \in 0..(Len(b) - 1) : CandDist(res) <= CandDist(j)
             /\ \A j \in 0..(res - 1) : CandDist(j) > CandDist(res)

\* a tie: a later candidate, a different point, is as near as the one returned
C7_Witness ==
    /\ pc = "nearest_point_to"
    /\ Len(b) >= 3
    /\ res > 0
    /\ \E j \in (res + 1)..(Len(b) - 1) :
          CandDist(j) = CandDist(res) /\ b[j + 1] # b[res + 1]

\* C8: for valid Intervals a, b, a.min_dist_with(b) is the minimum of |x - y|
\* over x in a and y in b: 0 if they overlap, b.lb - a.ub if a is entirely below
\* b, else a.lb - b.ub; and a.min_dist_with(v) is the minimum of |x - v| over x
\* in a.
C8_IntervalMinDistIsGap ==
    /\ pc = "Interval::min_dist_with" /\ a.lb <= a.ub /\ b.lb <= b.ub =>
          /\ res = SetMin({Gap(x, y) : x \in Members(a), y \in Members(b)})
          /\ res = IF Members(a) \cap Members(b) # {} THEN 0
                   ELSE IF a.ub < b.lb THEN b.lb - a.ub
                   ELSE a.lb - b.ub
    /\ pc = "Interval::min_dist_with(T)" /\ a.lb <= a.ub =>
          res = SetMin({Gap(x, b) : x \in Members(a)})

\* a scalar above a valid interval of more than one point
C8_Witness ==
    /\ pc = "Interval::min_dist_with(T)"
    /\ a.lb < a.ub /\ a.ub < b
    /\ res = b - a.ub
    /\ res >= 2

\* C9: for valid Rectangles r, s, r.min_dist_with(s) is the sum of the two
\* per-axis Interval distances and is the minimum Manhattan distance between a
\* point of r and a point of s; r.min_dist_with(Point q) is the minimum
\* Manhattan distance from q to a point of r.
C9_RectMinDistIsManhattan ==
    /\ pc = "Rectangle::min_dist_with" /\ ValidRect(a) /\ ValidRect(b) =>
          /\ res = Interval_min_dist_with(a.x_interval, b.x_interval)
                     + Interval_min_dist_with(a.y_interval, b.y_interval)
          /\ res = SetMin({Manhattan(p, q) : p \in RectMembers(a), q \in RectMembers(b)})
    /\ pc = "Rectangle::min_dist_with(Point)" /\ ValidRect(a) =>
          res = SetMin({Manhattan(p, b) : p \in RectMembers(a)})

\* two valid rectangles apart on both axes: both axes add to the distance
C9_Witness ==
    /\ pc = "Rectangle::min_dist_with"
    /\ ValidRect(a) /\ ValidRect(b)
    /\ a.x_interval.ub < b.x_interval.lb
    /\ b.y_interval.ub < a.y_interval.lb
    /\ res = (b.x_interval.lb - a.x_interval.ub) + (a.y_interval.lb - b.y_interval.ub)

\* the method a call of a generic function on operands of types ty must reach
MethodOverlaps ==
    CASE ty = II -> Interval_overlaps(a, b)
      [] ty = IT -> Interval_overlaps_T(a, b)
      [] ty = PP -> Point_overlaps(a, b)
      [] ty = RR -> Rectangle_overlaps(a, b)
      [] ty = VV -> VSegment_overlaps(a, b)
      [] ty = HH -> HSegment_overlaps(a, b)
MethodContains ==
    CASE ty = II -> Interval_contains(a, b)
      [] ty = IT -> Interval_contains_T(a, b)
      [] ty = PP -> Point_contains(a, b)
      [] ty = RR -> Rectangle_contains(a, b)
      [] ty = RP -> Rectangle_contains_Point(a, b)
      [] ty = VV -> VSegment_contains(a, b)
      [] ty = HH -> HSegment_contains(a, b)
      [] ty = VP -> VSegment_contains_Point(a, b)
      [] ty = HP -> HSegment_contains_Point(a, b)
MethodMinDistWith ==
    CASE ty = II -> Interval_min_dist_with(a, b)
      [] ty = IT -> Interval_min_dist_with_T(a, b)
      [] ty = PP -> Point_min_dist_with(a, b)
      [] ty = RR -> Rectangle_min_dist_with(a, b)
      [] ty = RP -> Rectangle_min_dist_with_Point(a, b)
MethodGetCenter ==
    CASE ty = I1 -> Interval_get_center(a)
      [] ty = P1 -> Point_get_center(a)
      [] ty = R1 -> Rectangle_get_center(a)
MethodMeasure ==
    CASE ty = I1 -> Interval_measure(a)
      [] ty = P1 -> Point_measure(a)
      [] ty = R1 -> Rectangle_measure(a)
MethodLowerCorner ==
    CASE ty = I1 -> Interval_lower_corner(a)
      [] ty = P1 -> Point_lower_corner(a)
      [] ty = R1 -> Rectangle_lower_corner(a)
MethodUpperCorner ==
    CASE ty = I1 -> Interval_upper_corner(a)
      [] ty = P1 -> Point_upper_corner(a)
      [] ty = R1 -> Rectangle_upper_corner(a)

\* C10: each generic free function returns what the method returns on the same
\* arguments: overlap(a,b) == a.overlaps(b), contain(a,b) == a.contains(b),
\* min_dist(a,b) == a.min_dist_with(b), center(a) == a.get_center(),
\* measure_of(a) == a.measure(), lower(a) == a.lower_corner(),
\* upper(a) == a.upper_corner().
C10_GenericForwards ==
    /\ pc = "overlap" => res = MethodOverlaps
    /\ pc = "contain" => res = MethodContains
    /\ pc = "min_dist" => res = MethodMinDistWith
    /\ pc = "center" => res = MethodGetCenter
    /\ pc = "measure_of" => res = MethodMeasure
    /\ pc = "lower" => res = MethodLowerCorner
    /\ pc = "upper" => res = MethodUpperCorner

\* contain on two rectangles that overlap while neither contains the other
C10_Witness ==
    /\ pc = "contain"
    /\ ty = RR
    /\ ValidRect(a) /\ ValidRect(b)
    /\ Rectangle_overlaps(a, b)
    /\ ~Rectangle_contains(a, b) /\ ~Rectangle_contains(b, a)
    /\ res = FALSE

\* the capability set the generic functions rely on
CapabilitySet ==
    {"overlaps", "contains", "min_dist_with", "get_center", "measure",
     "lower_corner", "upper_corner"}

\* C11: each of Interval, Point, Rectangle, HSegment and VSegment supplies
\* overlaps, contains, min_dist_with, get_center, measure, lower_corner and
\* upper_corner, so overlap, contain, min_dist, center, measure_of, lower and
\* upper are each defined for each of these types.
C11_FullCapabilitySet ==
    /\ pc = "start" /\ ty \in {II, PP, RR, VV, HH} =>
          /\ CapabilitySet \subseteq Methods(ty[1])
          /\ ENABLED CallOverlap
          /\ ENABLED CallContain
          /\ ENABLED CallMinDist
    /\ pc = "start" /\ ty \in {I1, P1, R1, V1, H1} =>
          /\ CapabilitySet \subseteq Methods(ty[1])
          /\ ENABLED CallCenter
          /\ ENABLED CallMeasureOf
          /\ ENABLED CallLower
          /\ ENABLED CallUpper

\* C12: enlarge(amount) returns [lb - amount, ub + amount] for every amount,
\* positive or negative, and never fails; for a valid interval the result is
\* invalid exactly when -2 * amount > width().
C12_EnlargeOrShrink ==
    /\ pc = "Interval::enlarge" =>
          /\ res = [lb |-> a.lb - b, ub |-> a.ub + b]
          /\ a.lb <= a.ub => (res.lb > res.ub <=> (0 - 2) * b > a.ub - a.lb)
          /\ a.lb <= a.ub => (Interval_is_invalid(res) <=> (0 - 2) * b > Interval_width(a))
    /\ pc = "start" /\ ty = IT => ENABLED CallIntervalEnlarge

\* a valid interval of width 1 shrunk by 1 on each side comes out invalid
C12_Witness ==
    /\ pc = "Interval::enlarge"
    /\ a.ub - a.lb = 1
    /\ b = 0 - 1
    /\ res.lb > res.ub

----------------------------------------------------------------------------
\* C13: every operation other than the in-place Vector2 operators leaves its
\* receiver and its arguments as they were: whatever sequence of const
\* calls is made (queries, hull_with, intersect_with, enlarge, flip,
\* arithmetic, the generic functions, nearest_point_to), the operands keep
\* their types and values, and the result is a separate value.
C13_ConstOperationsLeaveOperands ==
    [][pc' \notin InPlace => (a' = a /\ b' = b /\ ty' = ty)]_vars

C13_Witness ==
    /\ pc = "Rectangle::flip"
    /\ a.x_interval # a.y_interval
    /\ res = Rectangle(a.y_interval, a.x_interval)
    /\ res # a

\* C14: v += w, v -= w, v *= s and v /= s (s # 0) leave the receiver equal
\* to v + w, v - w, v * s and v / s of the values before the call, leave
\* the argument unchanged and return a reference to the receiver; a
\* receiver changes only in a step of one of these operators.
C14_InPlaceAssignsReceiver ==
    [][/\ pc' = "Vector2::operator+=" =>
              a' = Vector2_plus(a, b) /\ b' = b /\ res' = ThisRef
       /\ pc' = "Vector2::operator-=" =>
              a' = Vector2_minus(a, b) /\ b' = b /\ res' = ThisRef
       /\ pc' = "Vector2::operator*=" =>
              a' = Vector2_times(a, b) /\ b' = b /\ res' = ThisRef
       /\ pc' = "Vector2::operator/=" =>
              b # 0 /\ a' = Vector2_div(a, b) /\ b' = b /\ res' = ThisRef
       /\ a' # a => (pc' \in InPlace /\ ty \in {V2V2, V2T})]_vars

C14_Witness ==
    /\ pc = "Vector2::operator*="
    /\ b = 3
    /\ a = Vector2(3, 0 - 3)
    /\ res = ThisRef

\* C15: p.min_dist_with(q) is the Manhattan distance |p.x - q.x| +
\* |p.y - q.y|; it is the same with p and q exchanged, and it is 0 exactly
\* when p == q, which is exactly when p.overlaps(q).
C15_PointMinDistIsManhattan ==
    /\ pc = "Point::min_dist_with" =>
          /\ res = Manhattan(a, b)
          /\ res = Point_min_dist_with(b, a)
          /\ res = 0 <=> a = b
          /\ res = 0 <=> Point_eq(a, b)
          /\ res = 0 <=> Point_overlaps(a, b)
    /\ pc = "Point::overlaps" => (res <=> Point_min_dist_with(a, b) = 0)
    /\ pc = "Point::operator==" => (res <=> Point_min_dist_with(a, b) = 0)

C15_Witness ==
    /\ pc = "Point::min_dist_with"
    /\ a.x < b.x
    /\ a.y > b.y
    /\ res = (b.x - a.x) + (a.y - b.y)

\* C16: two VSegments (two HSegments) overlap iff their x (their y) are
\* equal and their intervals overlap, and one contains the other iff the
\* fixed coordinates are equal and its interval contains the other's;
\* with different fixed coordinates they never overlap, whatever the
\* intervals are.
C16_SegmentsNeedEqualFixedCoordinate ==
    /\ pc = "VSegment::overlaps" =>
          /\ res <=> (a.x = b.x /\ Interval_overlaps(a.y_interval, b.y_interval))
          /\ a.x # b.x => ~res
    /\ pc = "VSegment::contains" =>
          /\ res <=> (a.x = b.x /\ Interval_contains(a.y_interval, b.y_interval))
          /\ a.x # b.x => ~res
    /\ pc = "HSegment::overlaps" =>
          /\ res <=> (a.y = b.y /\ Interval_overlaps(a.x_interval, b.x_interval))
          /\ a.y # b.y => ~res
    /\ pc = "HSegment::contains" =>
          /\ res <=> (a.y = b.y /\ Interval_contains(a.x_interval, b.x_interval))
          /\ a.y # b.y => ~res

C16_Witness ==
    /\ pc = "VSegment::overlaps"
    /\ a.x # b.x
    /\ a.y_interval = b.y_interval
    /\ a.y_interval.lb < a.y_interval.ub
    /\ res = FALSE

\* C17: area() is width() * height(), the product of the two intervals'
\* widths, computed whether or not the rectangle is valid: it is >= 0 when
\* both intervals are valid and can be negative when one is invalid; the
\* default-constructed Rectangle has both intervals invalid.
C17_AreaIsUnguardedProduct ==
    /\ pc = "Rectangle::area" =>
          /\ res = Rectangle_width(a) * Rectangle_height(a)
          /\ res = Interval_width(a.x_interval) * Interval_width(a.y_interval)
          /\ res = (a.x_interval.ub - a.x_interval.lb)
                      * (a.y_interval.ub - a.y_interval.lb)
          /\ ValidRect(a) => res >= 0
          /\ res < 0 => ~ValidRect(a)
          /\ a = RectangleDefault =>
                /\ ~ValidRect(a)
                /\ Interval_is_invalid(a.x_interval)
                /\ Interval_is_invalid(a.y_interval)
    /\ RectangleDefault \in Rectangles

C17_Witness ==
    /\ pc = "Rectangle::area"
    /\ Interval_is_invalid(a.x_interval)
    /\ Interval_is_valid(a.y_interval)
    /\ res < 0

\* C18: for a Point p and a Vector2 v, p + v and p - v are calls that
\* return the Points (p.x + v.x, p.y + v.y) and (p.x - v.x, p.y - v.y); for
\* Points p and q, p - q is the Point (p.x - q.x, p.y - q.y).
C18_PointTranslatedByVector2 ==
    /\ pc = "start" /\ ty = PV2 =>
          /\ ENABLED CallPointPlus
          /\ ENABLED (CallPointMinusU \/ CallPointMinusPoint)
    /\ pc = "Point::operator+" => res = Point(a.x + b.x, a.y + b.y)
    /\ pc = "Point::operator-(Point<U>)" => res = Point(a.x - b.x, a.y - b.y)
    /\ pc = "Point::operator-(Point)" => res = Point(a.x - b.x, a.y - b.y)

\* the turn from v to w is counter-clockwise: w points to the left of v
CounterClockwise(v, w) == Vector2_dot(Vector2(0 - v.y, v.x), w) > 0
\* one vector is an integer multiple of the other
Parallel(v, w) ==
    \E k \in Coord : w = Vector2(k * v.x, k * v.y) \/ v = Vector2(k * w.x, k * w.y)

\* C19: v.cross(w) is x*w.y - y*w.x; it is positive exactly when the turn
\* from v to w is counter-clockwise (unit_x.cross(unit_y) is 1), zero when
\* the vectors are parallel, and v.cross(w) = -(w.cross(v)).
C19_CrossIsSigned ==
    pc = "Vector2::cross" =>
       /\ res = a.x * b.y - a.y * b.x
       /\ res > 0 <=> CounterClockwise(a, b)
       /\ res < 0 <=> CounterClockwise(b, a)
       /\ Parallel(a, b) => res = 0
       /\ res = 0 - Vector2_cross(b, a)
       /\ a = Vector2_unit_x /\ b = Vector2_unit_y => res = 1

C19_Witness ==
    /\ pc = "Vector2::cross"
    /\ a = Vector2_unit_x
    /\ b = Vector2_unit_y
    /\ res = 1

\* C20: for int coordinates Interval get_center() is (lb + ub) / 2 with the
\* quotient truncated toward zero: [1,5] gives 3, [1,4] gives 2 and [-3,0]
\* gives -1 (the floor would be -2); Rectangle get_center() is the Point of
\* the centers of its two intervals.
C20_CenterTruncatesTowardZero ==
    /\ pc = "Interval::get_center" =>
          /\ Abs(2 * res) <= Abs(a.lb + a.ub)
          /\ Abs(a.lb + a.ub) - Abs(2 * res) <= 1
          /\ a.lb + a.ub > 0 => res >= 0
          /\ a.lb + a.ub < 0 => res <= 0
          /\ a = Interval(1, 5) => res = 3
          /\ a = Interval(1, 4) => res = 2
          /\ a = Interval(0 - 3, 0) => res = 0 - 1
    /\ pc = "Rectangle::get_center" =>
          res = Point(Interval_get_center(a.x_interval),
                      Interval_get_center(a.y_interval))

C20_Witness ==
    /\ pc = "Interval::get_center"
    /\ a = Interval(0 - 3, 0)
    /\ res = 0 - 1

\* what holds of the locals at the loop test, i candidates having been examined
ScanInvariant ==
    /\ i \in 1..Len(b)
    /\ nearest \in 0..(i - 1)
    /\ min_dist = CandDist(nearest)
    /\ \A j \in 0..(i - 1) : CandDist(nearest) <= CandDist(j)
    /\ \A j \in 0..(nearest - 1) : CandDist(j) > CandDist(nearest)

\* the candidates not yet examined
ScanRemaining == Len(b) - i

\* C21: the scan of nearest_point_to terminates for every candidate list:
\* the number of candidates not yet examined is finite, every iteration
\* examines the next one (candidates[0] first, then one index at a time)
\* and so lowers that number by exactly one, the loop is never stuck, and
\* the return is possible only when the number is 0, also when a candidate
\* at distance 0 was found earlier; at the loop test, nearest is the first
\* candidate of minimum distance among those examined and min_dist is its
\* distance.
C21_ScanTerminatesWithoutEarlyExit ==
    /\ [](pc = "start" /\ ty = PVec => ENABLED (NearestEmpty \/ NearestFirst))
    /\ [](pc = "for" =>
            /\ ScanInvariant
            /\ ScanRemaining \in 0..(Len(b) - 1)
            /\ ScanRemaining > 0 => ENABLED NearestStep /\ ~ENABLED NearestReturn
            /\ ScanRemaining = 0 => ENABLED NearestReturn /\ ~ENABLED NearestStep)
    /\ [](pc = "nearest_point_to" /\ Len(b) > 0 => ScanRemaining = 0)
    /\ [][/\ pc = "start" /\ pc' = "for" => i' = 1
          /\ pc = "for" => pc' \in {"for", "nearest_point_to"}
          /\ pc = "for" /\ pc' = "for" =>
                ScanRemaining > 0 /\ ScanRemaining' = ScanRemaining - 1
          /\ pc = "for" /\ pc' = "nearest_point_to" =>
                ScanRemaining = 0 /\ res' = nearest]_vars

\* the first candidate is the point itself and the scan still went to the end
C21_Witness ==
    /\ pc = "nearest_point_to"
    /\ Len(b) = 3
    /\ b[1] = a
    /\ i = 3
    /\ res = 0

\* C22: for valid Intervals a, b, a.intersect_with(b) is valid iff
\* a.overlaps(b); when valid, a and b each contain it and it contains every
\* valid Interval that a and b both contain.
C22_IntersectIsLargestCommon ==
    pc = "Interval::intersect_with" /\ Interval_is_valid(a) /\ Interval_is_valid(b) =>
       /\ Interval_is_valid(res) <=> Interval_overlaps(a, b)
       /\ Interval_is_invalid(res) <=> ~Interval_overlaps(a, b)
       /\ Interval_is_valid(res) =>
             /\ Interval_contains(a, res)
             /\ Interval_contains(b, res)
             /\ \A c \in Intervals :
                   /\ Interval_is_valid(c)
                   /\ Interval_contains(a, c)
                   /\ Interval_contains(b, c)
                   => Interval_contains(res, c)
             /\ Members(res) = Members(a) \cap Members(b)

\* a partial overlap: the result takes one bound from each operand
C22_Witness ==
    /\ pc = "Interval::intersect_with"
    /\ a.lb < b.lb
    /\ b.lb < a.ub
    /\ a.ub < b.ub
    /\ res = Interval(b.lb, a.ub)

\* C23: an invalid Interval e (e.lb > e.ub, the [1, 0] of intersect_with
\* included) overlaps no valid Interval a: a.overlaps(e) and e.overlaps(a)
\* are both false.
C23_InvalidNeverOverlaps ==
    pc = "Interval::overlaps" =>
       /\ Interval_is_valid(a) /\ Interval_is_invalid(b) => res = FALSE
       /\ Interval_is_invalid(a) /\ Interval_is_valid(b) => res = FALSE

\* C24: for valid Intervals a, b, c, a.intersect_with(b).intersect_with(c)
\* == a.intersect_with(b.intersect_with(c)); each side is a valid interval
\* or the invalid interval [1, 0].
C24_IntersectAssociative ==
    /\ pc = "a.intersect_with(b).intersect_with(c)"
          /\ Interval_is_valid(a) /\ Interval_is_valid(b[1]) /\ Interval_is_valid(b[2]) =>
          /\ Interval_eq(res, Interval_intersect_with(a, Interval_intersect_with(b[1], b[2])))
          /\ Interval_is_valid(res) \/ res = IntervalDefault
    /\ pc = "a.intersect_with(b.intersect_with(c))"
          /\ Interval_is_valid(a) /\ Interval_is_valid(b[1]) /\ Interval_is_valid(b[2]) =>
          /\ Interval_eq(res, Interval_intersect_with(Interval_intersect_with(a, b[1]), b[2]))
          /\ Interval_is_valid(res) \/ res = IntervalDefault

\* a and b overlap, b and c overlap, and nothing is common to all three
C24_Witness ==
    /\ pc = "a.intersect_with(b).intersect_with(c)"
    /\ Interval_is_valid(a) /\ Interval_is_valid(b[1]) /\ Interval_is_valid(b[2])
    /\ Interval_overlaps(a, b[1])
    /\ Interval_overlaps(b[1], b[2])
    /\ ~Interval_overlaps(a, b[2])
    /\ res = IntervalDefault

\* C25: for a valid Interval over int, lb <= get_center() <= ub, negative
\* bounds included; a valid Rectangle contains its own get_center().
C25_CenterInside ==
    /\ pc = "Interval::get_center" /\ Interval_is_valid(a) =>
          /\ a.lb <= res
          /\ res <= a.ub
          /\ Interval_contains_T(a, res)
          /\ res \in Members(a)
    /\ pc = "Rectangle::get_center" /\ ValidRect(a) =>
          /\ Rectangle_contains_Point(a, res)
          /\ res.x \in Members(a.x_interval)
          /\ res.y \in Members(a.y_interval)

\* two consecutive negative bounds: the sum is odd and negative
C25_Witness ==
    /\ pc = "Interval::get_center"
    /\ a.ub < 0
    /\ a.ub - a.lb = 1
    /\ res = a.ub

\* R(p): the Rectangle of zero extent at Point p
PointAsRectangle(p) == Rectangle(Interval(p.x, p.x), Interval(p.y, p.y))

\* C26: the zero-extent Rectangle R(p) = Rectangle([p.x,p.x],[p.y,p.y])
\* agrees with the Point p: R(p).min_dist_with(q) = p.min_dist_with(q),
\* R(p).contains(q) = p.contains(q), and for a valid Rectangle s,
\* s.min_dist_with(R(p)) = s.min_dist_with(p).
C26_PointRectangleDuality ==
    /\ pc = "Rectangle::min_dist_with(Point)" =>
          /\ \A p \in Points :
                a = PointAsRectangle(p) => res = Point_min_dist_with(p, b)
          /\ ValidRect(a) => res = Rectangle_min_dist_with(a, PointAsRectangle(b))
    /\ pc = "Rectangle::contains(Point)" =>
          \A p \in Points :
             a = PointAsRectangle(p) => res = Point_contains(p, b)
    /\ pc = "Rectangle::min_dist_with" /\ ValidRect(a) =>
          \A p \in Points :
             b = PointAsRectangle(p) => res = Rectangle_min_dist_with_Point(a, p)
    /\ pc = "Point::min_dist_with" =>
          res = Rectangle_min_dist_with_Point(PointAsRectangle(a), b)
    /\ pc = "Point::contains" =>
          res = Rectangle_contains_Point(PointAsRectangle(a), b)

\* a rectangle with extent on x and a point apart from it on both axes
C26_Witness ==
    /\ pc = "Rectangle::min_dist_with(Point)"
    /\ a.x_interval.lb < a.x_interval.ub
    /\ a.y_interval.lb = a.y_interval.ub
    /\ b.x > a.x_interval.ub
    /\ b.y < a.y_interval.lb
    /\ res = (b.x - a.x_interval.ub) + (a.y_interval.lb - b.y)

\* C27: flip keeps the relations under the exchange of the axes: for
\* VSegments s, t and a Point (x, y), s.contains(Point(x, y)) =
\* s.flip().contains(Point(y, x)), s.overlaps(t) =
\* s.flip().overlaps(t.flip()) and s.contains(t) =
\* s.flip().contains(t.flip()); the same for HSegments.
C27_FlipKeepsRelations ==
    /\ pc = "VSegment::contains(Point)" =>
          res = HSegment_contains_Point(VSegment_flip(a), Point(b.y, b.x))
    /\ pc = "VSegment::overlaps" =>
          res = HSegment_overlaps(VSegment_flip(a), VSegment_flip(b))
    /\ pc = "VSegment::contains" =>
          res = HSegment_contains(VSegment_flip(a), VSegment_flip(b))
    /\ pc = "HSegment::contains(Point)" =>
          res = VSegment_contains_Point(HSegment_flip(a), Point(b.y, b.x))
    /\ pc = "HSegment::overlaps" =>
          res = VSegment_overlaps(HSegment_flip(a), HSegment_flip(b))
    /\ pc = "HSegment::contains" =>
          res = VSegment_contains(HSegment_flip(a), HSegment_flip(b))

\* a point off the diagonal inside a vertical segment of positive length
C27_Witness ==
    /\ pc = "VSegment::contains(Point)"
    /\ a.y_interval.lb < a.y_interval.ub
    /\ b.x # b.y
    /\ res = TRUE

====
